---- MODULE Spec2Model ----
(***************************************************************************)
(* A model of the NEO close-approach tool: the three export writers of     *)
(* write.py, the validators of validation.py, the two record parsers of    *)
(* extract.py and the entities of models.py.                               *)
(*                                                                         *)
(* Spec          the export writers, called in turn on the same results    *)
(* ValidateSpec  the range validators applied to bounded arguments         *)
(* LoadSpec      the record parsers applied to bounded catalog files       *)
(* EntitySpec    an Approach built, linked to its Body or not, serialized  *)
(* QuerySpec     validate_query_arguments on bounded args and filesystems  *)
(***************************************************************************)
EXTENDS Integers, Sequences, FiniteSets, TLC

VARIABLES
    results,   \* the iterable handed to the writers: one entity kind per element
    pc,        \* per writer: where its call stands
    handle,    \* per writer: the output file handle
    out,       \* per writer: the text written to its destination, in order
    first,     \* per JSON writer: the local flag `first`
    pulled,    \* per writer: how many elements it has requested from results
    skipped,   \* per writer: the positions it skipped with a warning
    flushes,   \* per writer: how many explicit flush() calls succeeded
    ioFault,   \* per writer: an open/write/flush on the destination has failed
    exc,       \* per writer: the exception its call ended with
    vfn,       \* the validator applied ("none" before)
    vlo,       \* its lower-bound argument
    vhi,       \* its upper-bound argument
    vres,      \* its outcome
    loader,    \* the record parser running ("none" before)
    header,    \* the field names the source file's header holds
    rows,      \* the source file's data rows: one row kind per row
    lpc,       \* where the parser stands
    rowsRead,  \* how many data rows the parser has taken from the source
    entities,  \* how many entities the parser has constructed
    lexc,      \* the exception the load ended with
    catalog,   \* the Body entities, by designation
    approach,  \* the Approach entity
    sres,      \* the outcome of approach.serialize()
    qargs,     \* validate_query_arguments: the args namespace
    qpos,      \* the position of the next check
    qstatus,   \* "idle", "running", "returned" or "raised"
    qpassed,   \* the checks that have returned, in the order they ran
    qfailed,   \* the check that raised ("none" before)
    fsParent,  \* the output file's parent path: "missing", "dir" or "file"
    fsWritable,\* the owner-write bit of that directory
    fsCreated, \* what this call created: "none", "ancestors" or "parent"
    fsBefore   \* the parent path and its write bit when the call began

wvars == <<results, pc, handle, out, first, pulled, skipped, flushes, ioFault, exc>>
vvars == <<vfn, vlo, vhi, vres>>
lvars == <<loader, header, rows, lpc, rowsRead, entities, lexc>>
mvars == <<catalog, approach, sres>>
qvars == <<qargs, qpos, qstatus, qpassed, qfailed, fsParent, fsWritable, fsCreated,
           fsBefore>>
vars == <<wvars, vvars, lvars, mvars, qvars>>

(***************************************************************************)
(* Bounds                                                                  *)
(***************************************************************************)
MaxLen == 3
MaxAbs == 2
MaxRows == 2
MaxBodies == 1

(***************************************************************************)
(* The entities of a results stream, by what exporting them does.          *)
(*   ok     serialize() returns the well-formed nested mapping             *)
(*   attr   serialize() raises AttributeError                              *)
(*   key    serialize() raises KeyError                                    *)
(*   type   serialize() raises TypeError                                   *)
(*   nokey  serialize() returns a mapping without the "neo" key            *)
(*   unser  serialize() returns a mapping holding a value json cannot      *)
(*          encode (the csv module writes its str())                       *)
(***************************************************************************)
Kinds == {"ok", "attr", "key", "type", "nokey", "unser"}

Writers == {"csv", "json", "stream"}

NoExc == [kind |-> "none", cause |-> "none", path |-> FALSE]

\* approach.serialize(): the exception it raises, "none" when it returns
SerializeRaises(kind) ==
    CASE kind = "attr" -> "AttributeError"
      [] kind = "key"  -> "KeyError"
      [] kind = "type" -> "TypeError"
      [] OTHER         -> "none"

\* data["neo"]["designation"] and the other lookups that flatten a mapping
FlattenRaises(kind) == IF kind = "nokey" THEN "KeyError" ELSE "none"

\* json.dump(data, file, ...): it writes chunk by chunk, so a value it cannot
\* encode raises TypeError after the text before it is written
DumpRaises(kind) == IF kind = "unser" THEN "TypeError" ELSE "none"

Obj(i) == "obj" \o ToString(i)
Partial(i) == "part" \o ToString(i)

\* the fieldnames tuple of write_to_csv
Fieldnames ==
    << "datetime_utc", "distance_au", "velocity_km_s", "designation",
       "name", "diameter_km", "potentially_hazardous" >>

\* the row of entity i: one cell per field name
Row(i) == [k \in 1..Len(Fieldnames) |-> ToString(i) \o "." \o Fieldnames[k]]

\* for approach in results: the next element is requested, one per iteration
NextIndexAll(p, n) == n
NextIndex(p, n) == p + 1

\* the end of a call that an exception leaves: the with block releases the
\* handle, `except OSError` wraps an OSError with the path, anything else
\* propagates as it is
Propagated(e) ==
    IF e = "OSError"
    THEN [kind |-> "OSError", cause |-> "OSError", path |-> TRUE]
    ELSE [kind |-> e, cause |-> "none", path |-> FALSE]

(***************************************************************************)
(* write_to_csv                                                            *)
(***************************************************************************)
CsvCaughtAttrOnly == {"AttributeError"}
\* except (AttributeError, KeyError)
CsvCaught == {"AttributeError", "KeyError"}

\* one pass of the loop body: serialize, flatten, writerow
CsvIteration(text, kind, i, io) ==
    LET e1 == SerializeRaises(kind)
        e2 == FlattenRaises(kind)
    IN  IF e1 # "none" THEN [text |-> text, raised |-> e1, io |-> FALSE]
        ELSE IF e2 # "none" THEN [text |-> text, raised |-> e2, io |-> FALSE]
        ELSE IF io = "write" THEN [text |-> text, raised |-> "OSError", io |-> TRUE]
        ELSE [text |-> Append(text, Row(i)), raised |-> "none", io |-> FALSE]

CsvOpen ==
    /\ pc["csv"] = "idle"
    /\ \E io \in {"ok", "open", "write"} :
        IF io = "ok"
        THEN /\ handle' = [handle EXCEPT !["csv"] = "open"]
             /\ out' = [out EXCEPT !["csv"] = <<Fieldnames>>]
             /\ pc' = [pc EXCEPT !["csv"] = "loop"]
             /\ UNCHANGED <<ioFault, exc>>
        ELSE /\ handle' = [handle EXCEPT !["csv"] =
                              IF io = "open" THEN "unopened" ELSE "closed"]
             /\ out' = [out EXCEPT !["csv"] = <<>>]
             /\ ioFault' = [ioFault EXCEPT !["csv"] = TRUE]
             /\ exc' = [exc EXCEPT !["csv"] = Propagated("OSError")]
             /\ pc' = [pc EXCEPT !["csv"] = "raised"]
    /\ UNCHANGED <<results, first, pulled, skipped, flushes, vvars, lvars, mvars, qvars>>

CsvPull ==
    /\ pc["csv"] = "loop"
    /\ pulled["csv"] < Len(results)
    /\ pulled' = [pulled EXCEPT !["csv"] = NextIndex(@, Len(results))]
    /\ pc' = [pc EXCEPT !["csv"] = "body"]
    /\ UNCHANGED <<results, handle, out, first, skipped, flushes, ioFault, exc,
                   vvars, lvars, mvars, qvars>>

CsvBody ==
    /\ pc["csv"] = "body"
    /\ \E io \in {"ok", "write"} :
        LET i == pulled["csv"]
            r == CsvIteration(out["csv"], results[i], i, io)
        IN  /\ out' = [out EXCEPT !["csv"] = r.text]
            /\ ioFault' = [ioFault EXCEPT !["csv"] = r.io]
            /\ IF r.raised = "none"
               THEN /\ pc' = [pc EXCEPT !["csv"] = "loop"]
                    /\ UNCHANGED <<skipped, handle, exc>>
               ELSE IF r.raised \in CsvCaught
               THEN /\ skipped' = [skipped EXCEPT !["csv"] = @ \cup {i}]
                    /\ pc' = [pc EXCEPT !["csv"] = "loop"]
                    /\ UNCHANGED <<handle, exc>>
               ELSE /\ handle' = [handle EXCEPT !["csv"] = "closed"]
                    /\ exc' = [exc EXCEPT !["csv"] = Propagated(r.raised)]
                    /\ pc' = [pc EXCEPT !["csv"] = "raised"]
                    /\ UNCHANGED skipped
    /\ UNCHANGED <<results, first, pulled, flushes, vvars, lvars, mvars, qvars>>

\* the sequence is exhausted: the with block closes the file (its buffered
\* text reaches the destination, or the close fails) and the call returns
CsvFinish ==
    /\ pc["csv"] = "loop"
    /\ pulled["csv"] >= Len(results)
    /\ handle' = [handle EXCEPT !["csv"] = "closed"]
    /\ \E io \in {"ok", "close"} :
        IF io = "ok"
        THEN /\ pc' = [pc EXCEPT !["csv"] = "done"]
             /\ UNCHANGED <<ioFault, exc>>
        ELSE /\ ioFault' = [ioFault EXCEPT !["csv"] = TRUE]
             /\ exc' = [exc EXCEPT !["csv"] = Propagated("OSError")]
             /\ pc' = [pc EXCEPT !["csv"] = "raised"]
    /\ UNCHANGED <<results, out, first, pulled, skipped, flushes, vvars, lvars, mvars, qvars>>

(***************************************************************************)
(* write_to_json                                                           *)
(***************************************************************************)
\* file.write("[\n")
JsonOpenText == <<"[", "\n">>
\* file.write(",\n")
JsonSepText == <<",", "\n">>
JsonCloseTextBare == <<"]">>
\* file.write("\n]")
JsonCloseText == <<"\n", "]">>

JsonCaughtWithOSError == {"AttributeError", "TypeError", "OSError"}
\* except (AttributeError, TypeError)
JsonCaught == {"AttributeError", "TypeError"}

\* if not first: file.write(",\n")
JsonSeparator(isFirst, text) == IF ~isFirst THEN text \o JsonSepText ELSE text

\* one pass of the loop body: separator, serialize, json.dump
JsonIteration(isFirst, text, kind, i, io) ==
    LET sep == JsonSeparator(isFirst, text)
        e1 == SerializeRaises(kind)
        e2 == DumpRaises(kind)
    IN  IF ~isFirst /\ io = "sep"
             THEN [text |-> text, raised |-> "OSError", io |-> TRUE,
                   flushed |-> FALSE]
        ELSE IF e1 # "none"
             THEN [text |-> sep, raised |-> e1, io |-> FALSE, flushed |-> FALSE]
        ELSE IF io = "dump"
             THEN [text |-> sep, raised |-> "OSError", io |-> TRUE,
                   flushed |-> FALSE]
        ELSE IF e2 # "none"
             THEN [text |-> Append(sep, Partial(i)), raised |-> e2, io |-> FALSE,
                   flushed |-> FALSE]
        ELSE [text |-> Append(sep, Obj(i)), raised |-> "none", io |-> FALSE,
              flushed |-> FALSE]

JsonOpen ==
    /\ pc["json"] = "idle"
    /\ pc["csv"] \in {"done", "raised"}
    /\ \E io \in {"ok", "open", "write"} :
        IF io = "ok"
        THEN /\ handle' = [handle EXCEPT !["json"] = "open"]
             /\ out' = [out EXCEPT !["json"] = JsonOpenText]
             /\ first' = [first EXCEPT !["json"] = TRUE]
             /\ pc' = [pc EXCEPT !["json"] = "loop"]
             /\ UNCHANGED <<ioFault, exc>>
        ELSE /\ handle' = [handle EXCEPT !["json"] =
                              IF io = "open" THEN "unopened" ELSE "closed"]
             /\ out' = [out EXCEPT !["json"] = <<>>]
             /\ ioFault' = [ioFault EXCEPT !["json"] = TRUE]
             /\ exc' = [exc EXCEPT !["json"] = Propagated("OSError")]
             /\ pc' = [pc EXCEPT !["json"] = "raised"]
             /\ UNCHANGED first
    /\ UNCHANGED <<results, pulled, skipped, flushes, vvars, lvars, mvars, qvars>>

JsonPull ==
    /\ pc["json"] = "loop"
    /\ pulled["json"] < Len(results)
    /\ pulled' = [pulled EXCEPT !["json"] = NextIndex(@, Len(results))]
    /\ pc' = [pc EXCEPT !["json"] = "body"]
    /\ UNCHANGED <<results, handle, out, first, skipped, flushes, ioFault, exc,
                   vvars, lvars, mvars, qvars>>

JsonBody ==
    /\ pc["json"] = "body"
    /\ \E io \in {"ok", "sep", "dump"} :
        LET i == pulled["json"]
            r == JsonIteration(first["json"], out["json"], results[i], i, io)
        IN  /\ out' = [out EXCEPT !["json"] = r.text]
            /\ first' = [first EXCEPT !["json"] = FALSE]
            /\ ioFault' = [ioFault EXCEPT !["json"] = r.io]
            /\ IF r.raised = "none"
               THEN /\ pc' = [pc EXCEPT !["json"] = "loop"]
                    /\ UNCHANGED <<skipped, handle, exc>>
               ELSE IF r.raised \in JsonCaught
               THEN /\ skipped' = [skipped EXCEPT !["json"] = @ \cup {i}]
                    /\ pc' = [pc EXCEPT !["json"] = "loop"]
                    /\ UNCHANGED <<handle, exc>>
               ELSE /\ handle' = [handle EXCEPT !["json"] = "closed"]
                    /\ exc' = [exc EXCEPT !["json"] = Propagated(r.raised)]
                    /\ pc' = [pc EXCEPT !["json"] = "raised"]
                    /\ UNCHANGED skipped
    /\ UNCHANGED <<results, pulled, flushes, vvars, lvars, mvars, qvars>>

\* the sequence is exhausted: file.write("\n]"), the with block closes the
\* file and the call returns
JsonFinish ==
    /\ pc["json"] = "loop"
    /\ pulled["json"] >= Len(results)
    /\ handle' = [handle EXCEPT !["json"] = "closed"]
    /\ \E io \in {"ok", "write"} :
        IF io = "ok"
        THEN /\ out' = [out EXCEPT !["json"] = @ \o JsonCloseText]
             /\ pc' = [pc EXCEPT !["json"] = "done"]
             /\ UNCHANGED <<ioFault, exc>>
        ELSE /\ ioFault' = [ioFault EXCEPT !["json"] = TRUE]
             /\ exc' = [exc EXCEPT !["json"] = Propagated("OSError")]
             /\ pc' = [pc EXCEPT !["json"] = "raised"]
             /\ UNCHANGED out
    /\ UNCHANGED <<results, first, pulled, skipped, flushes, vvars, lvars, mvars, qvars>>

(***************************************************************************)
(* write_to_json_streaming                                                 *)
(***************************************************************************)
\* file.write("[\n")
StreamOpenText == <<"[", "\n">>
\* file.write(",\n")
StreamSepText == <<",", "\n">>
\* file.write("\n]")
StreamCloseText == <<"\n", "]">>

\* except (AttributeError, TypeError)
StreamCaught == {"AttributeError", "TypeError"}

StreamSeparatorAlways(isFirst, text) == text \o StreamSepText
\* if not first: file.write(",\n")
StreamSeparator(isFirst, text) == IF ~isFirst THEN text \o StreamSepText ELSE text

\* one pass of the loop body: separator, serialize, json.dump, flush
StreamIteration(isFirst, text, kind, i, io) ==
    LET sep == StreamSeparator(isFirst, text)
        e1 == SerializeRaises(kind)
        e2 == DumpRaises(kind)
    IN  IF ~isFirst /\ io = "sep"
             THEN [text |-> text, raised |-> "OSError", io |-> TRUE,
                   flushed |-> FALSE]
        ELSE IF e1 # "none"
             THEN [text |-> sep, raised |-> e1, io |-> FALSE, flushed |-> FALSE]
        ELSE IF io = "dump"
             THEN [text |-> sep, raised |-> "OSError", io |-> TRUE,
                   flushed |-> FALSE]
        ELSE IF e2 # "none"
             THEN [text |-> Append(sep, Partial(i)), raised |-> e2, io |-> FALSE,
                   flushed |-> FALSE]
        ELSE IF io = "flush"
             THEN [text |-> Append(sep, Obj(i)), raised |-> "OSError", io |-> TRUE,
                   flushed |-> FALSE]
        ELSE [text |-> Append(sep, Obj(i)), raised |-> "none", io |-> FALSE,
              flushed |-> TRUE]

StreamOpen ==
    /\ pc["stream"] = "idle"
    /\ pc["json"] \in {"done", "raised"}
    /\ \E io \in {"ok", "open", "write"} :
        IF io = "ok"
        THEN /\ handle' = [handle EXCEPT !["stream"] = "open"]
             /\ out' = [out EXCEPT !["stream"] = StreamOpenText]
             /\ first' = [first EXCEPT !["stream"] = TRUE]
             /\ pc' = [pc EXCEPT !["stream"] = "loop"]
             /\ UNCHANGED <<ioFault, exc>>
        ELSE /\ handle' = [handle EXCEPT !["stream"] =
                              IF io = "open" THEN "unopened" ELSE "closed"]
             /\ out' = [out EXCEPT !["stream"] = <<>>]
             /\ ioFault' = [ioFault EXCEPT !["stream"] = TRUE]
             /\ exc' = [exc EXCEPT !["stream"] = Propagated("OSError")]
             /\ pc' = [pc EXCEPT !["stream"] = "raised"]
             /\ UNCHANGED first
    /\ UNCHANGED <<results, pulled, skipped, flushes, vvars, lvars, mvars, qvars>>

StreamPull ==
    /\ pc["stream"] = "loop"
    /\ pulled["stream"] < Len(results)
    /\ pulled' = [pulled EXCEPT !["stream"] = NextIndex(@, Len(results))]
    /\ pc' = [pc EXCEPT !["stream"] = "body"]
    /\ UNCHANGED <<results, handle, out, first, skipped, flushes, ioFault, exc,
                   vvars, lvars, mvars, qvars>>

StreamBody ==
    /\ pc["stream"] = "body"
    /\ \E io \in {"ok", "sep", "dump", "flush"} :
        LET i == pulled["stream"]
            r == StreamIteration(first["stream"], out["stream"], results[i], i, io)
        IN  /\ out' = [out EXCEPT !["stream"] = r.text]
            /\ first' = [first EXCEPT !["stream"] = FALSE]
            /\ ioFault' = [ioFault EXCEPT !["stream"] = r.io]
            /\ flushes' = [flushes EXCEPT !["stream"] = IF r.flushed THEN @ + 1 ELSE @]
            /\ IF r.raised = "none"
               THEN /\ pc' = [pc EXCEPT !["stream"] = "loop"]
                    /\ UNCHANGED <<skipped, handle, exc>>
               ELSE IF r.raised \in StreamCaught
               THEN /\ skipped' = [skipped EXCEPT !["stream"] = @ \cup {i}]
                    /\ pc' = [pc EXCEPT !["stream"] = "loop"]
                    /\ UNCHANGED <<handle, exc>>
               ELSE /\ handle' = [handle EXCEPT !["stream"] = "closed"]
                    /\ exc' = [exc EXCEPT !["stream"] = Propagated(r.raised)]
                    /\ pc' = [pc EXCEPT !["stream"] = "raised"]
                    /\ UNCHANGED skipped
    /\ UNCHANGED <<results, pulled, vvars, lvars, mvars, qvars>>

\* the sequence is exhausted: file.write("\n]"), the with block closes the
\* file and the call returns
StreamFinish ==
    /\ pc["stream"] = "loop"
    /\ pulled["stream"] >= Len(results)
    /\ handle' = [handle EXCEPT !["stream"] = "closed"]
    /\ \E io \in {"ok", "write"} :
        IF io = "ok"
        THEN /\ out' = [out EXCEPT !["stream"] = @ \o StreamCloseText]
             /\ pc' = [pc EXCEPT !["stream"] = "done"]
             /\ UNCHANGED <<ioFault, exc>>
        ELSE /\ ioFault' = [ioFault EXCEPT !["stream"] = TRUE]
             /\ exc' = [exc EXCEPT !["stream"] = Propagated("OSError")]
             /\ pc' = [pc EXCEPT !["stream"] = "raised"]
             /\ UNCHANGED out
    /\ UNCHANGED <<results, first, pulled, skipped, flushes, vvars, lvars, mvars, qvars>>

(***************************************************************************)
(* The export writers, called one after the other on the same results     *)
(* (CSV, then JSON, then streaming JSON), each to its own destination; the *)
(* program is single-threaded, so one call runs at a time.                 *)
(***************************************************************************)
SeqsUpTo(S, n) == UNION {[1..k -> S] : k \in 0..n}

ValidateIdle ==
    /\ vfn = "none"
    /\ vlo = [some |-> FALSE, v |-> 0]
    /\ vhi = [some |-> FALSE, v |-> 0]
    /\ vres = "pending"

LoadIdle ==
    /\ loader = "none"
    /\ header = {}
    /\ rows = <<>>
    /\ lpc = "idle"
    /\ rowsRead = 0
    /\ entities = 0
    /\ lexc = "none"

EntityIdle ==
    /\ catalog = <<>>
    /\ approach = <<>>
    /\ sres = [status |-> "pending"]

QueryIdle ==
    /\ qargs = <<>>
    /\ qpos = 1
    /\ qstatus = "idle"
    /\ qpassed = <<>>
    /\ qfailed = "none"
    /\ fsParent = "dir"
    /\ fsWritable = TRUE
    /\ fsCreated = "none"
    /\ fsBefore = <<"dir", TRUE>>

WriteIdle ==
    /\ pc = [w \in Writers |-> "idle"]
    /\ handle = [w \in Writers |-> "unopened"]
    /\ out = [w \in Writers |-> <<>>]
    /\ first = [w \in Writers |-> TRUE]
    /\ pulled = [w \in Writers |-> 0]
    /\ skipped = [w \in Writers |-> {}]
    /\ flushes = [w \in Writers |-> 0]
    /\ ioFault = [w \in Writers |-> FALSE]
    /\ exc = [w \in Writers |-> NoExc]

Init ==
    /\ results \in SeqsUpTo(Kinds, MaxLen)
    /\ WriteIdle
    /\ ValidateIdle
    /\ LoadIdle
    /\ EntityIdle
    /\ QueryIdle

Next ==
    \/ CsvOpen
    \/ CsvPull
    \/ CsvBody
    \/ CsvFinish
    \/ JsonOpen
    \/ JsonPull
    \/ JsonBody
    \/ JsonFinish
    \/ StreamOpen
    \/ StreamPull
    \/ StreamBody
    \/ StreamFinish

Spec == Init /\ [][Next]_vars

(***************************************************************************)
(* Properties of the export writers                                        *)
(***************************************************************************)
Range(s) == {s[k] : k \in 1..Len(s)}
Positions == [k \in 1..Len(results) |-> k]
JsonWriters == {"json", "stream"}
Ended(w) == pc[w] \in {"done", "raised"}
LookupFaults == {"AttributeError", "KeyError"}

\* the positions whose complete element stands in the JSON text, in order
JsonWritten(w) == SelectSeq(Positions, LAMBDA i : Obj(i) \in Range(out[w]))

RECURSIVE Joined(_)
Joined(idx) ==
    IF idx = <<>> THEN <<>>
    ELSE IF Len(idx) = 1 THEN <<Obj(idx[1])>>
    ELSE <<Obj(idx[1]), ",", "\n">> \o Joined(Tail(idx))

Bracketed(idx) == <<"[", "\n">> \o Joined(idx) \o <<"\n", "]">>

\* C1: when a JSON writer returns, its text is "[\n", the successfully written
\* elements with exactly one ",\n" between consecutive ones, and "\n]",
\* whatever entities were skipped.
C1_WellBracketed ==
    \A w \in JsonWriters : pc[w] = "done" => out[w] = Bracketed(JsonWritten(w))

\* the fault exporting an entity to CSV raises: from serialize(), else from
\* flattening
CsvFault(kind) ==
    IF SerializeRaises(kind) # "none" THEN SerializeRaises(kind)
    ELSE FlattenRaises(kind)

RECURSIVE RowsOf(_)
RowsOf(idx) ==
    IF idx = <<>> THEN <<>> ELSE <<Row(idx[1])>> \o RowsOf(Tail(idx))

\* C2: write_to_csv writes the 7-column header once, then one row per entity
\* that raised no AttributeError/KeyError, in input order; the entities that
\* raised one are skipped with a warning, never abort the call, and the call
\* returns normally; an empty input leaves the header alone.
C2_CsvRowsAndSkips ==
    /\ pc["csv"] = "done" =>
          /\ Len(out["csv"][1]) = 7
          /\ out["csv"] = <<Fieldnames>> \o
                RowsOf(SelectSeq(Positions,
                          LAMBDA i : CsvFault(results[i]) \notin LookupFaults))
          /\ skipped["csv"] =
                {i \in 1..Len(results) : CsvFault(results[i]) \in LookupFaults}
          /\ (results = <<>> => out["csv"] = <<Fieldnames>>)
    /\ pc["csv"] = "raised" =>
          /\ exc["csv"].kind \notin LookupFaults
          /\ \/ ioFault["csv"]
             \/ CsvFault(results[pulled["csv"]]) \notin LookupFaults \cup {"none"}
    /\ pc["csv"] = "loop" =>
          \A i \in 1..pulled["csv"] :
             CsvFault(results[i]) \in LookupFaults <=> i \in skipped["csv"]

C2_Witness ==
    /\ pc["csv"] = "done"
    /\ Len(results) = 3
    /\ skipped["csv"] = {2}
    /\ Len(out["csv"]) = 3

\* C3: the JSON writers never abort on a fault kind the CSV writer skips:
\* no JSON export ends by raising an exception write_to_csv catches per entity.
C3_JsonSkipsWhatCsvSkips ==
    \A w \in JsonWriters : pc[w] = "raised" => exc[w].kind \notin CsvCaught

\* C6: on the same results and with no I/O failure, the two JSON writers end
\* the same way with the same text and the same skips; the streaming one has
\* flushed once per element it wrote, the buffered one never.
C6_SameOutput ==
    /\ (/\ Ended("json") /\ Ended("stream")
        /\ ~ioFault["json"] /\ ~ioFault["stream"]) =>
          /\ out["json"] = out["stream"]
          /\ pc["json"] = pc["stream"]
          /\ exc["json"] = exc["stream"]
          /\ skipped["json"] = skipped["stream"]
    /\ flushes["json"] = 0
    /\ ~ioFault["stream"] => flushes["stream"] = Len(JsonWritten("stream"))

C6_Witness ==
    /\ pc["json"] = "done" /\ pc["stream"] = "done"
    /\ skipped["json"] # {}
    /\ flushes["stream"] >= 2

IoFatal(w) ==
    ioFault[w] =>
        /\ pc[w] = "raised"
        /\ exc[w] = [kind |-> "OSError", cause |-> "OSError", path |-> TRUE]
        /\ handle[w] # "open"

\* C7: in every writer a failed open or write ends the call with the OSError
\* that wraps the cause and names the path; it is not counted as a skip, no
\* further entity is pulled afterwards, and no call ends with its handle open.
C7_IoFailureIsFatal ==
    /\ [](\A w \in Writers : IoFatal(w) /\ (Ended(w) => handle[w] # "open"))
    /\ [][\A w \in Writers :
             /\ (~ioFault[w] /\ ioFault'[w]) => skipped'[w] = skipped[w]
             /\ ioFault[w] =>
                   /\ pulled'[w] = pulled[w]
                   /\ skipped'[w] = skipped[w]
                   /\ out'[w] = out[w]
                   /\ ioFault'[w]]_vars

C7_Witness ==
    /\ ioFault["csv"] /\ pulled["csv"] = 2
    /\ ioFault["json"] /\ pulled["json"] = 2
    /\ Len(results) = 3

\* the element of position i stands in writer w's output
InOutput(w, i) ==
    IF w = "csv" THEN Row(i) \in Range(out[w])
    ELSE Obj(i) \in Range(out[w]) \/ Partial(i) \in Range(out[w])

\* C8: a writer requests entity k+1 only after entity k was written or skipped:
\* every entity before the one in hand is in the output or among the skips,
\* and between two iterations so is the last one pulled.
C8_OneAtATime ==
    \A w \in Writers :
        /\ pulled[w] <= Len(results)
        /\ \A i \in 1..(pulled[w] - 1) : InOutput(w, i) \/ i \in skipped[w]
        /\ (pc[w] \in {"loop", "done"} /\ pulled[w] >= 1) =>
               InOutput(w, pulled[w]) \/ pulled[w] \in skipped[w]
        /\ (pc[w] = "body") => pulled[w] >= 1 /\ ~InOutput(w, pulled[w])

C8_Witness ==
    \A w \in Writers : pc[w] = "body" \/ (pc[w] = "done" /\ pulled[w] = 3)

\* C9: on an empty results sequence each JSON writer writes exactly
\* "[", newline, newline, "]".
C9_EmptyArray ==
    results = <<>> =>
        \A w \in JsonWriters : pc[w] = "done" => out[w] = <<"[", "\n", "\n", "]">>

C9_Witness ==
    results = <<>> /\ pc["json"] = "done" /\ pc["stream"] = "done"

(***************************************************************************)
(* validation.py: the range validators.  An optional argument is a record  *)
(* [some, v]: None is some = FALSE.  Dates are day ordinals (>= 1), the    *)
(* other bounds are numbers of either sign.                                *)
(***************************************************************************)
None == [some |-> FALSE, v |-> 0]
Some(x) == [some |-> TRUE, v |-> x]
Values == (0 - MaxAbs)..MaxAbs
Optional(S) == {None} \cup {Some(x) : x \in S}
IsDate(a) == ~a.some \/ a.v >= 1

\* a datetime.date object is true whatever its value; None is false
Truthy(a) == a.some

\* validate_date_range
validate_date_range(start_date, end_date) ==
    IF Truthy(start_date) /\ Truthy(end_date) /\ start_date.v > end_date.v
    THEN "ValidationError"
    ELSE "ok"

\* validate_distance_range
validate_distance_range(min_distance, max_distance) ==
    IF min_distance.some /\ max_distance.some
    THEN IF min_distance.v > max_distance.v THEN "ValidationError"
         ELSE IF min_distance.v < 0 THEN "ValidationError"
         ELSE IF max_distance.v < 0 THEN "ValidationError"
         ELSE "ok"
    ELSE "ok"

\* validate_velocity_range
validate_velocity_range(min_velocity, max_velocity) ==
    IF min_velocity.some /\ max_velocity.some
    THEN IF min_velocity.v > max_velocity.v THEN "ValidationError"
         ELSE IF min_velocity.v < 0 THEN "ValidationError"
         ELSE IF max_velocity.v < 0 THEN "ValidationError"
         ELSE "ok"
    ELSE "ok"

validate_diameter_range_ordering_only(min_diameter, max_diameter) ==
    IF min_diameter.some /\ max_diameter.some /\ min_diameter.v > max_diameter.v
    THEN "ValidationError"
    ELSE "ok"

\* validate_diameter_range
validate_diameter_range(min_diameter, max_diameter) ==
    IF min_diameter.some /\ max_diameter.some
    THEN IF min_diameter.v > max_diameter.v THEN "ValidationError"
         ELSE IF min_diameter.v < 0 THEN "ValidationError"
         ELSE IF max_diameter.v < 0 THEN "ValidationError"
         ELSE "ok"
    ELSE "ok"

ValidateDate ==
    /\ vfn = "none"
    /\ IsDate(vlo) /\ IsDate(vhi)
    /\ vfn' = "date"
    /\ vres' = validate_date_range(vlo, vhi)
    /\ UNCHANGED <<vlo, vhi, wvars, lvars, mvars, qvars>>

ValidateDistance ==
    /\ vfn = "none"
    /\ vfn' = "distance"
    /\ vres' = validate_distance_range(vlo, vhi)
    /\ UNCHANGED <<vlo, vhi, wvars, lvars, mvars, qvars>>

ValidateVelocity ==
    /\ vfn = "none"
    /\ vfn' = "velocity"
    /\ vres' = validate_velocity_range(vlo, vhi)
    /\ UNCHANGED <<vlo, vhi, wvars, lvars, mvars, qvars>>

ValidateDiameter ==
    /\ vfn = "none"
    /\ vfn' = "diameter"
    /\ vres' = validate_diameter_range(vlo, vhi)
    /\ UNCHANGED <<vlo, vhi, wvars, lvars, mvars, qvars>>

validate_limit_negative_only(limit) ==
    IF limit.some /\ limit.v < 0 THEN "ValidationError" ELSE "ok"

\* validate_limit
validate_limit(limit) ==
    IF limit.some /\ limit.v <= 0 THEN "ValidationError" ELSE "ok"

\* validate_limit takes one argument: it is vlo, and vhi is None
ValidateLimit ==
    /\ vfn = "none"
    /\ ~vhi.some
    /\ vfn' = "limit"
    /\ vres' = validate_limit(vlo)
    /\ UNCHANGED <<vlo, vhi, wvars, lvars, mvars, qvars>>

ValidateInit ==
    /\ vfn = "none"
    /\ vlo \in Optional(Values)
    /\ vhi \in Optional(Values)
    /\ vres = "pending"
    /\ results = <<>>
    /\ WriteIdle
    /\ LoadIdle
    /\ EntityIdle
    /\ QueryIdle

ValidateNext ==
    \/ ValidateDate
    \/ ValidateDistance
    \/ ValidateVelocity
    \/ ValidateDiameter
    \/ ValidateLimit

ValidateSpec == ValidateInit /\ [][ValidateNext]_vars

Misordered == vlo.some /\ vhi.some /\ vlo.v > vhi.v
Negative(a) == a.some /\ a.v < 0
Raised == vres = "ValidationError"

\* C4: validate_distance_range and validate_velocity_range raise exactly when
\* both bounds are present with lower > upper, or a present bound is negative
\* (a single negative bound with the other absent included).
C4_RaisesOnAnyNegativeBound ==
    vfn \in {"distance", "velocity"} =>
        (Raised <=> (Misordered \/ Negative(vlo) \/ Negative(vhi)))

C12_LimitPositive ==
    vfn = "limit" =>
        /\ (Raised <=> (vlo.some /\ vlo.v <= 0))
        /\ (~vlo.some => vres = "ok")
        /\ ((vlo.some /\ vlo.v >= 1) => vres = "ok")

C12_Witness ==
    /\ vfn = "limit"
    /\ vlo = Some(0)
    /\ Raised

(***************************************************************************)
(* extract.py: the record parsers.  A source file is its header (the set   *)
(* of field names it holds) and its data rows; a row is "good", or "bad"   *)
(* when a value of it does not convert (the entity constructor raises      *)
(* ValueError).                                                            *)
(***************************************************************************)
\* row["pdes"], row["name"], row["diameter"], row["pha"], in this order
NeoFields == <<"pdes", "name", "diameter", "pha">>
\* fields.index("des"), "cd", "dist", "v_rel", in this order
CadFields == <<"des", "cd", "dist", "v_rel">>

RowKinds == {"good", "bad"}

\* the dictionary lookups of one row of load_neos: KeyError at the first name
\* the header lacks
NeoRowLookups(hdr) ==
    IF \E k \in 1..Len(NeoFields) : NeoFields[k] \notin hdr
    THEN "KeyError" ELSE "none"

\* the four fields.index(...) calls of load_approaches: ValueError at the
\* first name the header lacks
CadIndexLookups(hdr) ==
    IF \E k \in 1..Len(CadFields) : CadFields[k] \notin hdr
    THEN "ValueError" ELSE "none"

\* NearEarthObject(...) / CloseApproach(...): float() of a malformed value raises
Construct(row) == IF row = "bad" THEN "ValueError" ELSE "none"

\* open the file, build the csv.DictReader
LoadNeosOpen ==
    /\ loader = "none"
    /\ loader' = "neos"
    /\ lpc' = "loop"
    /\ UNCHANGED <<header, rows, rowsRead, entities, lexc, wvars, vvars, mvars, qvars>>

\* one pass of `for row in reader`
LoadNeosRow ==
    /\ loader = "neos" /\ lpc = "loop"
    /\ rowsRead < Len(rows)
    /\ rowsRead' = rowsRead + 1
    /\ LET e1 == NeoRowLookups(header)
           e2 == Construct(rows[rowsRead + 1])
       IN  IF e1 # "none"
           THEN lpc' = "raised" /\ lexc' = e1 /\ UNCHANGED entities
           ELSE IF e2 # "none"
           THEN lpc' = "raised" /\ lexc' = e2 /\ UNCHANGED entities
           ELSE entities' = entities + 1 /\ UNCHANGED <<lpc, lexc>>
    /\ UNCHANGED <<loader, header, rows, wvars, vvars, mvars, qvars>>

LoadNeosReturn ==
    /\ loader = "neos" /\ lpc = "loop"
    /\ rowsRead >= Len(rows)
    /\ lpc' = "done"
    /\ UNCHANGED <<loader, header, rows, rowsRead, entities, lexc, wvars, vvars, mvars, qvars>>

\* json.load, data["fields"], data["data"] and the four index lookups
LoadApproachesRead ==
    /\ loader = "none"
    /\ loader' = "approaches"
    /\ LET e == CadIndexLookups(header)
       IN  IF e # "none"
           THEN lpc' = "raised" /\ lexc' = e
           ELSE lpc' = "loop" /\ UNCHANGED lexc
    /\ UNCHANGED <<header, rows, rowsRead, entities, wvars, vvars, mvars, qvars>>

\* one pass of `for approach_row in approach_data`
LoadApproachesRow ==
    /\ loader = "approaches" /\ lpc = "loop"
    /\ rowsRead < Len(rows)
    /\ rowsRead' = rowsRead + 1
    /\ LET e == Construct(rows[rowsRead + 1])
       IN  IF e # "none"
           THEN lpc' = "raised" /\ lexc' = e /\ UNCHANGED entities
           ELSE entities' = entities + 1 /\ UNCHANGED <<lpc, lexc>>
    /\ UNCHANGED <<loader, header, rows, wvars, vvars, mvars, qvars>>

LoadApproachesReturn ==
    /\ loader = "approaches" /\ lpc = "loop"
    /\ rowsRead >= Len(rows)
    /\ lpc' = "done"
    /\ UNCHANGED <<loader, header, rows, rowsRead, entities, lexc, wvars, vvars, mvars, qvars>>

LoadInit ==
    /\ loader = "none"
    /\ header \in SUBSET Range(NeoFields) \cup SUBSET Range(CadFields)
    /\ rows \in SeqsUpTo(RowKinds, MaxRows)
    /\ lpc = "idle"
    /\ rowsRead = 0
    /\ entities = 0
    /\ lexc = "none"
    /\ results = <<>>
    /\ WriteIdle
    /\ ValidateIdle
    /\ EntityIdle
    /\ QueryIdle

LoadNext ==
    \/ LoadNeosOpen
    \/ LoadNeosRow
    \/ LoadNeosReturn
    \/ LoadApproachesRead
    \/ LoadApproachesRow
    \/ LoadApproachesReturn

LoadSpec == LoadInit /\ [][LoadNext]_vars

\* the field names the running parser expects
Expected ==
    IF loader = "neos" THEN Range(NeoFields) ELSE Range(CadFields)

\* C10: when the header lacks an expected field name, no data row is
\* processed, no entity is constructed and the load ends by raising, for any
\* number of data rows (zero included).
C10_FailFastOnHeader ==
    (loader # "none" /\ ~(Expected \subseteq header)) =>
        /\ rowsRead = 0
        /\ entities = 0
        /\ lpc \in {"done", "raised"} => lpc = "raised"

(***************************************************************************)
(* models.py: the two entities.  An optional string is a record [some, v]; *)
(* a float is a record [nan, v]; the Approach refers to its Body by the    *)
(* Body's designation, the key of the catalog.                             *)
(***************************************************************************)
NoStr == [some |-> FALSE, v |-> ""]
Str(x) == [some |-> TRUE, v |-> x]
NaN == [nan |-> TRUE, v |-> 0]
Num(x) == [nan |-> FALSE, v |-> x]
NoTime == [some |-> FALSE, v |-> <<>>]

\* str.strip()
Strip(t) == IF t = " " THEN "" ELSE t

\* float(text) of the numeric texts of the catalogs
ParseFloat(t) == IF t = "0" THEN Num(0) ELSE Num(2)

\* the truth value of an optional string: None and "" are false
StrTruthy(a) == a.some /\ a.v # ""

\* helpers.cd_to_datetime: the NASA calendar-date text to a datetime
cd_to_datetime(t) ==
    IF t = "2020-Jan-01 12:30" THEN <<2020, 1, 1, 12, 30>>
    ELSE <<1900, 1, 1, 0, 0>>

\* helpers.datetime_to_str: a datetime to its text, without seconds
datetime_to_str(d) ==
    IF d = <<2020, 1, 1, 12, 30>> THEN "2020-01-01 12:30"
    ELSE "1900-01-01 00:00"

\* NearEarthObject.__init__
NearEarthObject(designation, name, diameter, hazardous) ==
    [ designation |-> IF designation # "" THEN designation ELSE "",
      name        |-> IF StrTruthy(name) /\ Strip(name.v) # "" THEN name ELSE NoStr,
      diameter    |-> IF StrTruthy(diameter) /\ Strip(diameter.v) # ""
                      THEN ParseFloat(diameter.v) ELSE NaN,
      hazardous   |-> hazardous,
      approaches  |-> <<>> ]

\* NearEarthObject.serialize; d != d holds of NaN alone
NearEarthObject_serialize(self) ==
    [ designation           |-> self.designation,
      name                  |-> IF self.name.some THEN self.name.v ELSE "",
      diameter_km           |-> IF ~self.diameter.nan THEN self.diameter ELSE NaN,
      potentially_hazardous |-> self.hazardous ]

\* CloseApproach.__init__
CloseApproach(designation, time, distance, velocity) ==
    [ designation |-> IF designation # "" THEN designation ELSE "",
      time        |-> IF StrTruthy(time)
                      THEN [some |-> TRUE, v |-> cd_to_datetime(time.v)]
                      ELSE NoTime,
      distance    |-> IF StrTruthy(distance) THEN ParseFloat(distance.v) ELSE Num(0),
      velocity    |-> IF StrTruthy(velocity) THEN ParseFloat(velocity.v) ELSE Num(0),
      neo         |-> NoStr ]

\* CloseApproach.time_str
time_str(self) == IF self.time.some THEN datetime_to_str(self.time.v) ELSE ""

CloseApproach_serialize_linked_only(self, cat) ==
    IF self.neo.some
    THEN [ status |-> "returned", linked |-> TRUE,
           value  |-> [ datetime_utc  |-> time_str(self),
                        distance_au   |-> self.distance,
                        velocity_km_s |-> self.velocity,
                        neo           |-> NearEarthObject_serialize(cat[self.neo.v]) ] ]
    ELSE [ status |-> "raised", linked |-> FALSE, value |-> "AttributeError" ]

\* CloseApproach.serialize; a NearEarthObject is true, None is false
CloseApproach_serialize(self, cat) ==
    [ status |-> "returned",
      linked |-> self.neo.some,
      value  |-> [ datetime_utc  |-> time_str(self),
                   distance_au   |-> self.distance,
                   velocity_km_s |-> self.velocity,
                   neo           |-> IF self.neo.some
                                     THEN NearEarthObject_serialize(cat[self.neo.v])
                                     ELSE [ designation           |-> self.designation,
                                            name                  |-> "",
                                            diameter_km           |-> NaN,
                                            potentially_hazardous |-> FALSE ] ] ]

BodyDesignations == {"433", "1036"}
RawNames == {NoStr, Str(""), Str(" "), Str("Eros")}
RawNumbers == {NoStr, Str(""), Str(" "), Str("0"), Str("2")}
RawTimes == {NoStr, Str(""), Str("2020-Jan-01 12:30")}

Bodies(d) ==
    { NearEarthObject(d, n, k, h) : n \in RawNames, k \in RawNumbers, h \in BOOLEAN }

Catalogs ==
    UNION { { c \in [D -> UNION {Bodies(d) : d \in D}] :
                \A d \in D : c[d].designation = d } :
            D \in {E \in SUBSET BodyDesignations : Cardinality(E) <= MaxBodies} }

Approaches ==
    { CloseApproach(d, t, x, v) :
        d \in BodyDesignations \cup {""}, t \in RawTimes,
        x \in {NoStr, Str("0"), Str("2")}, v \in {NoStr, Str("2")} }

\* the linking pass: the Approach whose designation is a key of the catalog
\* gets that Body as its neo, and the Body gets the Approach
Link ==
    /\ ~approach.neo.some
    /\ approach.designation \in DOMAIN catalog
    /\ approach' = [approach EXCEPT !.neo = Str(approach.designation)]
    /\ catalog' = [catalog EXCEPT ![approach.designation].approaches = Append(@, 1)]
    /\ UNCHANGED <<sres, wvars, vvars, lvars, qvars>>

Serialize ==
    /\ sres.status = "pending"
    /\ sres' = CloseApproach_serialize(approach, catalog)
    /\ UNCHANGED <<catalog, approach, wvars, vvars, lvars, qvars>>

EntityInit ==
    /\ catalog \in Catalogs
    /\ approach \in Approaches
    /\ sres = [status |-> "pending"]
    /\ results = <<>>
    /\ WriteIdle
    /\ ValidateIdle
    /\ LoadIdle
    /\ QueryIdle

EntityNext ==
    \/ Link
    \/ Serialize

EntitySpec == EntityInit /\ [][EntityNext]_vars

\* C11: serialize() returns in every state of the Approach, linked or not: a
\* mapping with the keys datetime_utc, distance_au, velocity_km_s and neo,
\* where neo holds the linked Body's designation, name ("" when it has none),
\* diameter and hazard flag, or, when unlinked, the captured designation, the
\* empty name, a NaN diameter and FALSE.
C11_SerializeNeedsNoLink ==
    sres.status # "pending" =>
        /\ sres.status = "returned"
        /\ DOMAIN sres.value =
              {"datetime_utc", "distance_au", "velocity_km_s", "neo"}
        /\ sres.linked => approach.neo.some
        /\ IF sres.linked
           THEN LET body == catalog[approach.neo.v]
                IN  sres.value.neo =
                       [ designation           |-> body.designation,
                         name                  |-> IF body.name.some
                                                   THEN body.name.v ELSE "",
                         diameter_km           |-> body.diameter,
                         potentially_hazardous |-> body.hazardous ]
           ELSE sres.value.neo =
                   [ designation           |-> approach.designation,
                     name                  |-> "",
                     diameter_km           |-> [nan |-> TRUE, v |-> 0],
                     potentially_hazardous |-> FALSE ]

C11_Witness ==
    /\ sres.status = "returned"
    /\ ~sres.linked
    /\ approach.designation = "433"
    /\ sres.value.neo.designation = "433"

(***************************************************************************)
(* validation.py: validate_query_arguments, its path checks and the        *)
(* filesystem they read and change.  The output file's parent path is      *)
(* "missing", a "dir" or a "file"; an input path likewise, or "absent"     *)
(* when the option is not given.                                           *)
(***************************************************************************)
\* validate_file_path(path, must_exist=True)
validate_file_path(state) ==
    IF state = "missing" THEN "ValidationError"
    ELSE IF state # "file" THEN "ValidationError"
    ELSE "ok"

\* validate_output_file_path: mk is what parent_dir.mkdir(parents=True) does
\* when the parent is missing: it fails having created nothing or only
\* leading segments, or it creates the directory, whose write bit the
\* process umask decides
validate_output_file_path(parent, writable, mk) ==
    LET made    == parent = "missing" /\ mk \in {"writable", "readonly"}
        parent2 == IF made THEN "dir" ELSE parent
        write2  == IF made THEN mk = "writable" ELSE writable
        created == IF made THEN "parent"
                   ELSE IF parent = "missing" /\ mk = "fail_partial" THEN "ancestors"
                   ELSE "none"
        res     == IF parent = "missing" /\ ~made THEN "ValidationError"
                   ELSE IF parent2 # "dir" THEN "ValidationError"
                   ELSE IF ~write2 THEN "ValidationError"
                   ELSE "ok"
    IN  [res |-> res, parent |-> parent2, writable |-> write2, created |-> created]

MkdirOutcomes == {"fail", "fail_partial", "writable", "readonly"}

QueryOrderOutfileBeforeLimit ==
    << "date", "distance", "velocity", "diameter", "outfile", "limit",
       "neofile", "cadfile" >>
\* the calls of validate_query_arguments, top to bottom
QueryOrder ==
    << "date", "distance", "velocity", "diameter", "limit", "outfile",
       "neofile", "cadfile" >>

\* a check returned: the next statement runs; a check raised: the exception
\* leaves validate_query_arguments
QueryAfter(name, res) ==
    /\ qstatus = "running"
    /\ qpos <= Len(QueryOrder)
    /\ QueryOrder[qpos] = name
    /\ IF res = "ok"
       THEN /\ qpassed' = Append(qpassed, name)
            /\ qpos' = qpos + 1
            /\ UNCHANGED <<qstatus, qfailed>>
       ELSE /\ qstatus' = "raised"
            /\ qfailed' = name
            /\ UNCHANGED <<qpassed, qpos>>
    /\ UNCHANGED <<qargs, fsBefore, wvars, vvars, lvars, mvars>>

QueryDate ==
    /\ QueryAfter("date", validate_date_range(qargs.date[1], qargs.date[2]))
    /\ UNCHANGED <<fsParent, fsWritable, fsCreated>>

QueryDistance ==
    /\ QueryAfter("distance",
                  validate_distance_range(qargs.distance[1], qargs.distance[2]))
    /\ UNCHANGED <<fsParent, fsWritable, fsCreated>>

QueryVelocity ==
    /\ QueryAfter("velocity",
                  validate_velocity_range(qargs.velocity[1], qargs.velocity[2]))
    /\ UNCHANGED <<fsParent, fsWritable, fsCreated>>

QueryDiameter ==
    /\ QueryAfter("diameter",
                  validate_diameter_range(qargs.diameter[1], qargs.diameter[2]))
    /\ UNCHANGED <<fsParent, fsWritable, fsCreated>>

QueryLimit ==
    /\ QueryAfter("limit", validate_limit(qargs.limit))
    /\ UNCHANGED <<fsParent, fsWritable, fsCreated>>

\* if hasattr(args, 'outfile') and args.outfile: validate_output_file_path
QueryOutfile ==
    \E mk \in MkdirOutcomes :
        LET r == IF qargs.outfile
                 THEN validate_output_file_path(fsParent, fsWritable, mk)
                 ELSE [res |-> "ok", parent |-> fsParent, writable |-> fsWritable,
                       created |-> "none"]
        IN  /\ QueryAfter("outfile", r.res)
            /\ fsParent' = r.parent
            /\ fsWritable' = r.writable
            /\ fsCreated' = r.created

\* if hasattr(args, 'neofile') and args.neofile: validate_file_path
QueryNeofile ==
    /\ QueryAfter("neofile",
                  IF qargs.neofile # "absent"
                  THEN validate_file_path(qargs.neofile) ELSE "ok")
    /\ UNCHANGED <<fsParent, fsWritable, fsCreated>>

\* if hasattr(args, 'cadfile') and args.cadfile: validate_file_path
QueryCadfile ==
    /\ QueryAfter("cadfile",
                  IF qargs.cadfile # "absent"
                  THEN validate_file_path(qargs.cadfile) ELSE "ok")
    /\ UNCHANGED <<fsParent, fsWritable, fsCreated>>

QueryReturn ==
    /\ qstatus = "running"
    /\ qpos > Len(QueryOrder)
    /\ qstatus' = "returned"
    /\ UNCHANGED <<qargs, qpos, qpassed, qfailed, fsParent, fsWritable, fsCreated,
                   fsBefore, wvars, vvars, lvars, mvars>>

DateRanges == {<<None, None>>, <<Some(1), Some(2)>>, <<Some(2), Some(1)>>}
NumberRanges ==
    {<<None, None>>, <<Some(0), Some(1)>>, <<Some(1), Some(0)>>,
     <<Some(0 - 1), Some(1)>>}
Limits == {None, Some(0), Some(1)}
PathStates == {"missing", "file", "dir"}

QueryInit ==
    /\ qargs \in [ date : DateRanges, distance : NumberRanges,
                   velocity : NumberRanges, diameter : NumberRanges,
                   limit : Limits, outfile : BOOLEAN,
                   neofile : PathStates \cup {"absent"},
                   cadfile : {"absent", "missing", "file"} ]
    /\ qpos = 1
    /\ qstatus = "running"
    /\ qpassed = <<>>
    /\ qfailed = "none"
    /\ fsParent \in PathStates
    /\ fsWritable \in BOOLEAN
    /\ fsParent # "dir" => ~fsWritable
    /\ fsCreated = "none"
    /\ fsBefore = <<fsParent, fsWritable>>
    /\ results = <<>>
    /\ WriteIdle
    /\ ValidateIdle
    /\ LoadIdle
    /\ EntityIdle

QueryNext ==
    \/ QueryDate
    \/ QueryDistance
    \/ QueryVelocity
    \/ QueryDiameter
    \/ QueryLimit
    \/ QueryOutfile
    \/ QueryNeofile
    \/ QueryCadfile
    \/ QueryReturn

QuerySpec == QueryInit /\ [][QueryNext]_vars

IsPrefix(a, b) == Len(a) <= Len(b) /\ \A k \in 1..Len(a) : a[k] = b[k]
RangeOrLimit == {"date", "distance", "velocity", "diameter", "limit"}
ChecksRun == IF qfailed = "none" THEN qpassed ELSE Append(qpassed, qfailed)

\* the checks run in the stated order and a raise ends the call; a range or
\* limit failure leaves the filesystem as it was
OrderedAndPure ==
    /\ IsPrefix(ChecksRun,
                << "date", "distance", "velocity", "diameter", "limit", "outfile",
                   "neofile", "cadfile" >>)
    /\ qstatus = "raised" <=> qfailed # "none"
    /\ (qstatus = "raised" /\ qfailed \in RangeOrLimit) =>
          /\ fsCreated = "none"
          /\ <<fsParent, fsWritable>> = fsBefore

\* C13 as stated: fixed order, stop at the first failure, no filesystem change
\* on a range or limit failure, and only a failing input-file check can leave
\* a newly created output directory behind.
C13_OnlyInputChecksLeaveDirectory ==
    /\ OrderedAndPure
    /\ (qstatus = "raised" /\ fsCreated = "parent") =>
          qfailed \in {"neofile", "cadfile"}

\* C13: fixed order, stop at the first failure, no filesystem change on a
\* range or limit failure; a newly created output directory is left behind
\* only by a failing input-file check or by the output-path check itself,
\* when the directory it has just created has no write bit.
C13_OrderAndSideEffects ==
    /\ OrderedAndPure
    /\ (qstatus = "raised" /\ fsCreated = "parent") =>
          \/ qfailed \in {"neofile", "cadfile"}
          \/ qfailed = "outfile" /\ ~fsWritable

\* a limit violation raised although an output path under a missing directory
\* was supplied
C13_Witness ==
    /\ qstatus = "raised"
    /\ qfailed = "limit"
    /\ qargs.outfile
    /\ fsParent = "missing"

====
